---- MODULE Spec2Model ----
(***************************************************************************)
(* Model of the live recognition pipeline of src/app.py                    *)
(* (class FaceRecognitionApp): the camera capture worker, the frame        *)
(* processing worker, the single-worker recognition executor, the          *)
(* stabilization state machine (update_recognition_state) and the          *)
(* attendance gate (mark_attendance).                                      *)
(*                                                                         *)
(* Three specifications share the variables:                               *)
(*   Spec        the threads of one camera session and their interleaving; *)
(*   SpecStab    the stabilization machine stepped with every label the    *)
(*               recognition thread can publish;                           *)
(*   SpecAttend  the attendance gate together with the stabilization       *)
(*               machine and the wall clock.                               *)
(***************************************************************************)
EXTENDS Integers, Sequences, FiniteSets, TLC

\* ------------------------------------------------------------------------
\* Program constants (FaceRecognitionApp.__init__)
\* ------------------------------------------------------------------------
LOG_COOLDOWN_SECONDS == 300
\* RECOGNITION_INTERVAL is 0.75 s; time.monotonic() is counted in units of 0.75 s
RECOGNITION_INTERVAL == 1
HISTORY_MAX_LENGTH == 8
\* CONFIDENCE_THRESHOLD_PERCENT is 0.75, kept as the fraction 75 / 100
CONFIDENCE_THRESHOLD_PERCENT == 75
PERCENT_BASE == 100
REQUIRED_STABLE_FRAMES == 4
\* DEEPFACE_DISTANCE_THRESHOLD is 0.40; distances are counted in hundredths
DEEPFACE_DISTANCE_THRESHOLD == 40
\* float('inf')
INF == 1000
\* queue.Queue(maxsize=2)
QUEUE_MAXSIZE == 2

\* ------------------------------------------------------------------------
\* Bounds of the model
\* ------------------------------------------------------------------------
MaxFed == 8       \* labels remembered in the observation variable fed
MaxRun == 10      \* cap of the observed run length of equal labels
MaxCommits == 1   \* attendance commits (SpecStab)
MaxResults == 2   \* recognition results published (SpecAttend)
TickSeconds == 150 \* step of the wall clock
MaxNow == 300     \* last instant of the wall clock
MaxFrames == 4    \* frames the device delivers (Spec)
MaxMono == 4      \* last instant of time.monotonic() (Spec)
MaxTasks == 2     \* recognition tasks submitted (Spec)
MaxRaceResults == 2 \* recognition results published (SpecRace)
MaxGateEntries == 2 \* log entries after which no call starts (SpecGate)
MaxStarts == 2    \* calls of start_camera (SpecRestart)

\* ------------------------------------------------------------------------
\* Values
\* ------------------------------------------------------------------------
None == "None"
Identities == {"A", "B"}
Sentinels == {"Unknown", "Error", "Searching..."}
\* distances the external Recognizer reports: below and at the threshold
Distances == {20, 40}
\* time.monotonic() when the application is constructed: some instant later
\* than RECOGNITION_INTERVAL after the origin of the clock
MonoStart == RECOGNITION_INTERVAL + 1
\* what video_label shows before the first frame, and the placeholder image
NoImage == [frame |-> 0, face |-> FALSE, name |-> None, distance |-> INF]
Placeholder == [frame |-> 0 - 1, face |-> FALSE, name |-> None, distance |-> INF]

VARIABLES
    \* --- State Variables (app.py 173-180)
    database_ready,
    locked_in_person,
    recognition_history,
    stable_recognition_count,
    recently_logged,
    last_recognition_result,
    last_recognition_time,
    \* --- Threading and Queues (app.py 183-191)
    app_running,
    camera_thread,
    processing_thread,
    raw_frame_queue,
    processed_frame_queue,
    recognition_executor,
    recognition_future,
    \* --- locals of _frame_processing_worker
    frame,
    face_coords,
    \* --- UI thread
    display_scheduled,
    video_label,
    setup_done,
    \* --- environment
    db_thread,
    frames_read,
    tasks_submitted,
    results_published,
    mono,
    now,
    attendance_log,
    status_log,
    \* --- observation of the last operation
    fed,
    fed_over,
    run_label,
    run_len,
    last_call,
    \* --- observation of the Recognizer's last outcome
    last_outcome,
    \* --- update_recognition_state line by line: position and locals
    update_pc,
    most_common_name,
    count,
    proportion,
    \* --- mark_attendance line by line: position and locals of each caller,
    \* --- and the holder of write_lock
    mark_calls,
    write_lock,
    \* --- camera sessions: the worker threads ever started and the position
    \* --- of the UI thread inside stop_camera / start_camera
    acq_workers,
    proc_workers,
    camera_ui,
    \* --- lines 450-451 read by read: position and the three values read
    iter_pc,
    fed_label,
    drawn_label,
    drawn_distance

stabVars == <<locked_in_person, recognition_history, stable_recognition_count>>
attendVars == <<recently_logged, attendance_log, status_log, now>>
resultVars == <<last_recognition_result, results_published>>
obsVars == <<fed, fed_over, run_label, run_len, last_call>>
updVars == <<update_pc, most_common_name, count, proportion>>
markVars == <<mark_calls, write_lock>>
restartVars == <<acq_workers, proc_workers, camera_ui>>
tearVars == <<iter_pc, fed_label, drawn_label, drawn_distance>>
threadVars == <<last_outcome, updVars, markVars, restartVars, tearVars>>
pipeVars == <<database_ready, last_recognition_time, app_running, camera_thread,
              processing_thread, raw_frame_queue, processed_frame_queue,
              recognition_executor, recognition_future, frame, face_coords,
              display_scheduled, video_label, setup_done, db_thread, frames_read,
              tasks_submitted, mono>>
vars == <<stabVars, attendVars, resultVars, obsVars, threadVars, pipeVars>>

\* ------------------------------------------------------------------------
\* Stabilization state machine: update_recognition_state (app.py 492-514)
\* ------------------------------------------------------------------------
Range(s) == {s[i] : i \in 1..Len(s)}

Count(h, l) == Cardinality({i \in 1..Len(h) : h[i] = l})

FirstIndex(h, l) == CHOOSE i \in 1..Len(h) : h[i] = l /\ \A j \in 1..(i - 1) : h[j] # l

\* Counter(history).most_common(1)[0][0]: the highest count; among equal
\* counts the label that entered the Counter first
MostCommonName(h) ==
    CHOOSE l \in Range(h) :
        \A m \in Range(h) :
            \/ Count(h, l) > Count(h, m)
            \/ Count(h, l) = Count(h, m) /\ FirstIndex(h, l) <= FirstIndex(h, m)

\* variant: a full history refuses the new label
AppendHistory_drop_newest(h, name) ==
    IF Len(h) >= HISTORY_MAX_LENGTH THEN h ELSE Append(h, name)

\* lines 493-495: append, pop(0) beyond HISTORY_MAX_LENGTH
AppendHistory(h, name) ==
    LET h1 == Append(h, name)
    IN  IF Len(h1) > HISTORY_MAX_LENGTH THEN Tail(h1) ELSE h1

\* variant: proportion > threshold instead of >=
ConfidenceHolds_strict(h) ==
    /\ h # <<>>
    /\ MostCommonName(h) \notin Sentinels
    /\ Count(h, MostCommonName(h)) * PERCENT_BASE > CONFIDENCE_THRESHOLD_PERCENT * Len(h)

\* line 502: the confidence condition, proportion = count / len(history)
ConfidenceHolds(h) ==
    /\ h # <<>>
    /\ MostCommonName(h) \notin Sentinels
    /\ Count(h, MostCommonName(h)) * PERCENT_BASE >= CONFIDENCE_THRESHOLD_PERCENT * Len(h)

\* variant: locks on the frame whose increment reaches REQUIRED_STABLE_FRAMES
StabilizeStep_lock_on_reach(h, stable, locked) ==
    IF ConfidenceHolds(h)
    THEN IF stable + 1 < REQUIRED_STABLE_FRAMES
         THEN [history |-> h, stable |-> stable + 1, locked |-> locked]
         ELSE [history |-> h, stable |-> REQUIRED_STABLE_FRAMES,
               locked |-> MostCommonName(h)]
    ELSE [history |-> IF locked # None THEN <<>> ELSE h,
          stable |-> 0,
          locked |-> None]

\* variant: the stable count keeps counting one frame past the requirement
StabilizeStep_count_past_requirement(h, stable, locked) ==
    IF ConfidenceHolds(h)
    THEN IF stable < REQUIRED_STABLE_FRAMES
         THEN [history |-> h, stable |-> stable + 1, locked |-> locked]
         ELSE [history |-> h, stable |-> REQUIRED_STABLE_FRAMES + 1,
               locked |-> MostCommonName(h)]
    ELSE [history |-> IF locked # None THEN <<>> ELSE h,
          stable |-> 0,
          locked |-> None]

\* variant: a lock that is already held is given up on the next confident frame
StabilizeStep_release_held(h, stable, locked) ==
    IF ConfidenceHolds(h)
    THEN IF stable < REQUIRED_STABLE_FRAMES
         THEN [history |-> h, stable |-> stable + 1, locked |-> locked]
         ELSE [history |-> h, stable |-> stable,
               locked |-> IF locked = MostCommonName(h) THEN None
                          ELSE MostCommonName(h)]
    ELSE [history |-> IF locked # None THEN <<>> ELSE h,
          stable |-> 0,
          locked |-> None]

\* variant: the unlock keeps the history
StabilizeStep_keep_history(h, stable, locked) ==
    IF ConfidenceHolds(h)
    THEN IF stable < REQUIRED_STABLE_FRAMES
         THEN [history |-> h, stable |-> stable + 1, locked |-> locked]
         ELSE [history |-> h, stable |-> stable, locked |-> MostCommonName(h)]
    ELSE [history |-> h, stable |-> 0, locked |-> None]

\* lines 502-514 on the history h (already appended): the new
\* stable_recognition_count, locked_in_person and recognition_history
StabilizeStep(h, stable, locked) ==
    IF ConfidenceHolds(h)
    THEN IF stable < REQUIRED_STABLE_FRAMES
         THEN [history |-> h, stable |-> stable + 1, locked |-> locked]
         ELSE [history |-> h, stable |-> stable, locked |-> MostCommonName(h)]
    ELSE [history |-> IF locked # None THEN <<>> ELSE h,
          stable |-> 0,
          locked |-> None]

\* update_recognition_state(name) on the fields of the application
update_recognition_state(name) ==
    LET h == AppendHistory(recognition_history, name)
        r == StabilizeStep(h, stable_recognition_count, locked_in_person)
    IN  /\ recognition_history' = r.history
        /\ stable_recognition_count' = r.stable
        /\ locked_in_person' = r.locked

\* ------------------------------------------------------------------------
\* Recognition task: _run_deepface_recognition (app.py 458-474)
\* ------------------------------------------------------------------------
\* what DeepFace.find does: a best match, an empty result, or an exception
RecognizerOutcomes ==
    [kind : {"match"}, name : Identities, distance : Distances]
        \cup [kind : {"empty", "raise"}, name : {None}, distance : {INF}]

\* no recognition task has finished yet
NoOutcome == [kind |-> "none", name |-> None, distance |-> INF]

\* variant: a best match whose distance equals the threshold keeps its name
RecognitionResultOf_at_threshold(o) ==
    IF o.kind = "match"
    THEN IF o.distance <= DEEPFACE_DISTANCE_THRESHOLD
         THEN <<o.name, o.distance>>
         ELSE <<"Unknown", o.distance>>
    ELSE <<"Unknown", INF>>

\* the tuple stored in last_recognition_result
RecognitionResultOf(o) ==
    IF o.kind = "match"
    THEN IF o.distance < DEEPFACE_DISTANCE_THRESHOLD
         THEN <<o.name, o.distance>>
         ELSE <<"Unknown", o.distance>>
    ELSE <<"Unknown", INF>>

\* ------------------------------------------------------------------------
\* Attendance gate: mark_attendance (app.py 892-936)
\* ------------------------------------------------------------------------
\* the details.json of an identity: its user_type, or why it cannot be read
RecordKinds == {"Student", "Faculty", "Other", "missing", "unreadable"}

\* line 894: name in recently_logged and now < recently_logged[name]
OnCooldown(name) ==
    /\ name \in DOMAIN recently_logged
    /\ now < recently_logged[name]

\* variant: the entry holds the time of the commit, without the duration
CooldownAfterCommit_no_duration(table, name, t) ==
    [n \in (DOMAIN table) \cup {name} |-> IF n = name THEN t ELSE table[n]]

\* line 930: recently_logged[name] = now + timedelta(seconds=LOG_COOLDOWN_SECONDS)
CooldownAfterCommit(table, name, t) ==
    [n \in (DOMAIN table) \cup {name} |->
        IF n = name THEN t + LOG_COOLDOWN_SECONDS ELSE table[n]]

\* lines 912-919: the row appended to the target file
AttendanceEntry(name, user_type, t) ==
    [name |-> name, user_type |-> user_type, time |-> t]

\* the early returns of mark_attendance before the write (lines 894-922)
MarkRejected(name, record) ==
    \/ OnCooldown(name)
    \/ record \notin {"Student", "Faculty"}

\* variant: a successful commit leaves the stabilization state alone
mark_attendance_no_reset(name, record, write_ok) ==
    IF MarkRejected(name, record) \/ ~write_ok
    THEN /\ status_log' = "rejected"
         /\ UNCHANGED <<recently_logged, attendance_log, locked_in_person,
                        recognition_history>>
    ELSE /\ attendance_log' = Append(attendance_log, AttendanceEntry(name, record, now))
         /\ status_log' = "LOGGED"
         /\ recently_logged' = CooldownAfterCommit(recently_logged, name, now)
         /\ UNCHANGED <<locked_in_person, recognition_history>>

\* variant: the cooldown is recorded before the write is attempted
mark_attendance_cooldown_first(name, record, write_ok) ==
    IF MarkRejected(name, record)
    THEN /\ status_log' = "rejected"
         /\ UNCHANGED <<recently_logged, attendance_log, locked_in_person,
                        recognition_history>>
    ELSE IF write_ok
    THEN /\ attendance_log' = Append(attendance_log, AttendanceEntry(name, record, now))
         /\ status_log' = "LOGGED"
         /\ recently_logged' = CooldownAfterCommit(recently_logged, name, now)
         /\ locked_in_person' = None
         /\ recognition_history' = <<>>
    ELSE /\ status_log' = "ERROR writing"
         /\ recently_logged' = CooldownAfterCommit(recently_logged, name, now)
         /\ UNCHANGED <<attendance_log, locked_in_person, recognition_history>>

\* variant: an attempt that finds no valid record starts the cooldown
mark_attendance_cooldown_on_reject(name, record, write_ok) ==
    IF OnCooldown(name)
    THEN /\ status_log' = ""
         /\ UNCHANGED <<recently_logged, attendance_log, locked_in_person,
                        recognition_history>>
    ELSE IF record \notin {"Student", "Faculty"}
    THEN /\ status_log' = IF record = "missing"
                          THEN "ERROR: Details file not found"
                          ELSE IF record = "unreadable"
                          THEN "ERROR: Could not read details"
                          ELSE "WARNING: Unknown user type"
         /\ recently_logged' = CooldownAfterCommit(recently_logged, name, now)
         /\ UNCHANGED <<attendance_log, locked_in_person, recognition_history>>
    ELSE IF write_ok
    THEN /\ attendance_log' = Append(attendance_log, AttendanceEntry(name, record, now))
         /\ status_log' = "LOGGED"
         /\ recently_logged' = CooldownAfterCommit(recently_logged, name, now)
         /\ locked_in_person' = None
         /\ recognition_history' = <<>>
    ELSE /\ status_log' = "ERROR writing"
         /\ UNCHANGED <<recently_logged, attendance_log, locked_in_person,
                        recognition_history>>

\* mark_attendance(name) with the record found on disk and the outcome of
\* the write; status_log is the message handed to log_message ("" if none)
mark_attendance(name, record, write_ok) ==
    IF OnCooldown(name)
    THEN /\ status_log' = ""
         /\ UNCHANGED <<recently_logged, attendance_log, locked_in_person,
                        recognition_history>>
    ELSE IF record = "missing"
    THEN /\ status_log' = "ERROR: Details file not found"
         /\ UNCHANGED <<recently_logged, attendance_log, locked_in_person,
                        recognition_history>>
    ELSE IF record = "unreadable"
    THEN /\ status_log' = "ERROR: Could not read details"
         /\ UNCHANGED <<recently_logged, attendance_log, locked_in_person,
                        recognition_history>>
    ELSE IF record \notin {"Student", "Faculty"}
    THEN /\ status_log' = "WARNING: Unknown user type"
         /\ UNCHANGED <<recently_logged, attendance_log, locked_in_person,
                        recognition_history>>
    ELSE IF write_ok
    THEN /\ attendance_log' = Append(attendance_log, AttendanceEntry(name, record, now))
         /\ status_log' = "LOGGED"
         /\ recently_logged' = CooldownAfterCommit(recently_logged, name, now)
         /\ locked_in_person' = None
         /\ recognition_history' = <<>>
    ELSE /\ status_log' = "ERROR writing"
         /\ UNCHANGED <<recently_logged, attendance_log, locked_in_person,
                        recognition_history>>

\* ------------------------------------------------------------------------
\* Callers of mark_attendance
\* ------------------------------------------------------------------------
\* "ui": the Tk main thread (button command, line 273); "other": a second
\* thread calling mark_attendance directly
Callers == {"ui", "other"}

\* a caller that is not inside manual_mark_attendance / mark_attendance
IdleCall == [pc |-> "idle", name |-> None, t |-> 0, record |-> None]

\* ------------------------------------------------------------------------
\* Observation variables
\* ------------------------------------------------------------------------
\* the value mark_attendance hands back: every path ends in a bare
\* `return` (lines 895, 901, 906, 921) or falls off the end (line 936)
MarkReturn(name, record, write_ok) == None

\* locked_before: locked_in_person when the call started
NoCall ==
    [op |-> "none", name |-> None, record |-> None, write_ok |-> FALSE,
     returned |-> None, locked_before |-> None]
FeedCall(name) ==
    [op |-> "feed", name |-> name, record |-> None, write_ok |-> FALSE,
     returned |-> None, locked_before |-> locked_in_person]
MarkCall(name, record, write_ok) ==
    [op |-> "mark", name |-> name, record |-> record, write_ok |-> write_ok,
     returned |-> MarkReturn(name, record, write_ok),
     locked_before |-> locked_in_person]
PublishCall ==
    [op |-> "publish", name |-> None, record |-> None, write_ok |-> FALSE,
     returned |-> None, locked_before |-> None]

\* fed: the labels given to update_recognition_state since construction, as
\* long as there are at most MaxFed of them (afterwards fed_over is set and
\* fed is emptied); run_label, run_len: the label given last and how many
\* times in a row
ObserveFeed(name) ==
    /\ fed' = IF ~fed_over /\ Len(fed) < MaxFed THEN Append(fed, name) ELSE <<>>
    /\ fed_over' = (fed_over \/ Len(fed) >= MaxFed)
    /\ run_label' = name
    /\ run_len' = IF run_label = name
                  THEN (IF run_len < MaxRun THEN run_len + 1 ELSE run_len)
                  ELSE 1
    /\ last_call' = FeedCall(name)

\* ------------------------------------------------------------------------
\* Initial state: FaceRecognitionApp.__init__ (app.py 173-191)
\* ------------------------------------------------------------------------
Init ==
    /\ database_ready = FALSE
    /\ locked_in_person = None
    /\ recognition_history = <<>>
    /\ stable_recognition_count = 0
    /\ recently_logged = <<>>
    /\ last_recognition_result = <<"Searching...", INF>>
    /\ last_recognition_time = 0
    /\ app_running = TRUE
    /\ camera_thread = None
    /\ processing_thread = None
    /\ raw_frame_queue = <<>>
    /\ processed_frame_queue = <<>>
    /\ recognition_executor = [pending |-> <<>>, running |-> 0, shutdown |-> FALSE]
    /\ recognition_future = 0
    /\ frame = 0
    /\ face_coords = FALSE
    /\ display_scheduled = FALSE
    /\ video_label = NoImage
    /\ setup_done = FALSE
    /\ db_thread = None
    /\ frames_read = 0
    /\ tasks_submitted = 0
    /\ results_published = 0
    /\ mono = MonoStart
    /\ now = 0
    /\ attendance_log = <<>>
    /\ status_log = ""
    /\ fed = <<>>
    /\ fed_over = FALSE
    /\ run_label = None
    /\ run_len = 0
    /\ last_call = NoCall
    /\ last_outcome = NoOutcome
    /\ update_pc = "idle"
    /\ most_common_name = None
    /\ count = 0
    /\ proportion = 0
    /\ mark_calls = [c \in Callers |-> IdleCall]
    /\ write_lock = None
    /\ acq_workers = <<>>
    /\ proc_workers = <<>>
    /\ camera_ui = "idle"
    /\ iter_pc = "l436"
    /\ fed_label = None
    /\ drawn_label = None
    /\ drawn_distance = INF

\* ------------------------------------------------------------------------
\* SpecStab: the stabilization machine under every label sequence the
\* program can produce; SpecAttend: the attendance gate
\* ------------------------------------------------------------------------
\* the recognition thread stores a result (lines 468-474)
PublishResult(o) ==
    /\ last_recognition_result' = RecognitionResultOf(o)
    /\ last_call' = PublishCall
    /\ last_outcome' = o
    /\ UNCHANGED <<stabVars, attendVars, results_published, fed, fed_over,
                   run_label, run_len, updVars, markVars, restartVars,
                   tearVars, pipeVars>>

\* line 450: update_recognition_state(self.last_recognition_result[0])
FeedCachedLabel ==
    /\ update_recognition_state(last_recognition_result[1])
    /\ ObserveFeed(last_recognition_result[1])
    /\ UNCHANGED <<attendVars, resultVars, threadVars, pipeVars>>

\* manual_mark_attendance (lines 331-333)
ManualMarkAttendance(record, write_ok) ==
    /\ locked_in_person # None
    /\ mark_attendance(locked_in_person, record, write_ok)
    /\ last_call' = MarkCall(locked_in_person, record, write_ok)
    /\ UNCHANGED <<stable_recognition_count, now, resultVars, fed, fed_over,
                   run_label, run_len, threadVars, pipeVars>>

\* a commit whose record is valid and whose write succeeds
CommitLocked ==
    /\ Len(attendance_log) < MaxCommits
    /\ ManualMarkAttendance("Student", TRUE)

StabOutcomes == {o \in RecognizerOutcomes : o.distance # 40}
NextStab ==
    \/ \E o \in StabOutcomes : PublishResult(o)
    \/ FeedCachedLabel
    \/ CommitLocked

SpecStab == Init /\ [][NextStab]_vars

\* ------------------------------------------------------------------------
\* SpecAttend: the attendance gate, the stabilization machine that offers
\* the identity, and the wall clock
\* ------------------------------------------------------------------------
\* a recognition task finishes and stores its result (lines 468-474)
PublishCounted(o) ==
    /\ results_published < MaxResults
    /\ results_published' = results_published + 1
    /\ last_recognition_result' = RecognitionResultOf(o)
    /\ last_call' = PublishCall
    /\ last_outcome' = o
    /\ UNCHANGED <<stabVars, attendVars, fed, fed_over, run_label, run_len,
                   updVars, markVars, restartVars, tearVars, pipeVars>>

\* datetime.now() advances
TickWall ==
    /\ now + TickSeconds <= MaxNow
    /\ now' = now + TickSeconds
    /\ last_call' = NoCall
    /\ UNCHANGED <<stabVars, recently_logged, attendance_log, status_log,
                   resultVars, fed, fed_over, run_label, run_len, threadVars,
                   pipeVars>>

\* the record found and the outcome of the write; the write is reached
\* only with a Student or Faculty record
MarkInputs ==
    {inp \in RecordKinds \X BOOLEAN : inp[1] \in {"Student", "Faculty"} \/ inp[2]}

NextAttend ==
    \/ \E o \in RecognizerOutcomes : PublishCounted(o)
    \/ FeedCachedLabel
    \/ \E inp \in MarkInputs : ManualMarkAttendance(inp[1], inp[2])
    \/ TickWall

SpecAttend == Init /\ [][NextAttend]_vars

\* ------------------------------------------------------------------------
\* Spec: the threads of one camera session
\* ------------------------------------------------------------------------
nonPipeVars == <<attendVars, results_published, obsVars, threadVars>>

\* variant: a full queue evicts its oldest item
PutNoWait_drop_oldest(q, item) ==
    IF Len(q) < QUEUE_MAXSIZE THEN Append(q, item) ELSE Append(Tail(q), item)

\* queue.Queue.put(item, block=False): queue.Full is raised and swallowed
\* when the queue holds maxsize items (lines 421-422, 453-456)
PutNoWait(q, item) ==
    IF Len(q) < QUEUE_MAXSIZE THEN Append(q, item) ELSE q

\* Future.running(): the worker thread of the executor has taken the task
\* and has not finished it
FutureRunning(executor, future) == future # 0 /\ executor.running = future

\* line 444
IsRecognitionRunning == FutureRunning(recognition_executor, recognition_future)

\* tasks submitted and not finished: queued in the executor or running
InFlight(executor) ==
    Len(executor.pending) + (IF executor.running # 0 THEN 1 ELSE 0)

\* variant: the gate without the interval since the last dispatch
DispatchGate_no_interval(face) ==
    /\ database_ready
    /\ face
    /\ ~IsRecognitionRunning

\* line 446: the dispatch gate
DispatchGate(face) ==
    /\ database_ready
    /\ face
    /\ ~IsRecognitionRunning
    /\ mono - last_recognition_time > RECOGNITION_INTERVAL

\* draw_on_frame (lines 516-550): the name of the caption
DisplayName(face, name) ==
    IF locked_in_person # None THEN locked_in_person
    ELSE IF stable_recognition_count > 0 /\ name \notin {"Searching...", "Unknown"}
    THEN name
    ELSE IF face
    THEN (IF name = "Unknown" THEN "Unknown" ELSE "Analyzing...")
    ELSE "Searching..."

\* the annotated frame; the caption is drawn only around a face (line 541)
AnnotatedFrame(f, face, name, distance) ==
    IF face
    THEN [frame |-> f, face |-> TRUE, name |-> DisplayName(face, name),
          distance |-> distance]
    ELSE [frame |-> f, face |-> FALSE, name |-> None, distance |-> INF]

\* run_initial_setup (lines 210-214): starts the model loading thread and
\* calls start_camera (393-401), which begins with stop_camera (403-410)
RunInitialSetup ==
    /\ ~setup_done
    /\ setup_done' = TRUE
    /\ db_thread' = "running"
    /\ raw_frame_queue' = <<>>
    /\ processed_frame_queue' = <<>>
    /\ app_running' = TRUE
    /\ camera_thread' = "open"
    /\ processing_thread' = "loop"
    /\ display_scheduled' = TRUE
    /\ UNCHANGED <<database_ready, last_recognition_time, recognition_executor,
                   recognition_future, frame, face_coords, video_label,
                   frames_read, tasks_submitted, mono, stabVars,
                   last_recognition_result, nonPipeVars>>

\* _initialize_models_and_verify_db (lines 345-391)
InitializeModels(ok) ==
    /\ db_thread = "running"
    /\ db_thread' = "done"
    /\ database_ready' = ok
    /\ UNCHANGED <<last_recognition_time, app_running, camera_thread,
                   processing_thread, raw_frame_queue, processed_frame_queue,
                   recognition_executor, recognition_future, frame, face_coords,
                   display_scheduled, video_label, setup_done, frames_read,
                   tasks_submitted, mono, stabVars, last_recognition_result,
                   nonPipeVars>>

\* _camera_capture_worker, lines 413-417: the device is opened
CameraOpen(opened) ==
    /\ camera_thread = "open"
    /\ camera_thread' = IF opened THEN "loop" ELSE "exited"
    /\ UNCHANGED <<database_ready, last_recognition_time, app_running,
                   processing_thread, raw_frame_queue, processed_frame_queue,
                   recognition_executor, recognition_future, frame, face_coords,
                   display_scheduled, video_label, setup_done, db_thread,
                   frames_read, tasks_submitted, mono, stabVars,
                   last_recognition_result, nonPipeVars>>

\* lines 418-422: one iteration that reads a frame and enqueues it without
\* blocking (a failed read sleeps and changes nothing)
CameraCapture ==
    /\ camera_thread = "loop"
    /\ app_running
    /\ frames_read < MaxFrames
    /\ frames_read' = frames_read + 1
    /\ raw_frame_queue' = PutNoWait(raw_frame_queue, frames_read + 1)
    /\ UNCHANGED <<database_ready, last_recognition_time, app_running,
                   camera_thread, processing_thread, processed_frame_queue,
                   recognition_executor, recognition_future, frame, face_coords,
                   display_scheduled, video_label, setup_done, db_thread,
                   tasks_submitted, mono, stabVars, last_recognition_result,
                   nonPipeVars>>

\* lines 418, 423: the flag is clear, the device is released
CameraExit ==
    /\ camera_thread = "loop"
    /\ ~app_running
    /\ camera_thread' = "exited"
    /\ UNCHANGED <<database_ready, last_recognition_time, app_running,
                   processing_thread, raw_frame_queue, processed_frame_queue,
                   recognition_executor, recognition_future, frame, face_coords,
                   display_scheduled, video_label, setup_done, db_thread,
                   frames_read, tasks_submitted, mono, stabVars,
                   last_recognition_result, nonPipeVars>>

\* _frame_processing_worker, line 426: the loop condition
ProcCheckRunning ==
    /\ processing_thread = "loop"
    /\ processing_thread' = IF app_running THEN "get" ELSE "exited"
    /\ UNCHANGED <<database_ready, last_recognition_time, app_running,
                   camera_thread, raw_frame_queue, processed_frame_queue,
                   recognition_executor, recognition_future, frame, face_coords,
                   display_scheduled, video_label, setup_done, db_thread,
                   frames_read, tasks_submitted, mono, stabVars,
                   last_recognition_result, nonPipeVars>>

\* lines 427-430: raw_frame_queue.get(timeout=1.0); queue.Empty continues
ProcGetFrame ==
    /\ processing_thread = "get"
    /\ IF raw_frame_queue # <<>>
       THEN /\ frame' = Head(raw_frame_queue)
            /\ raw_frame_queue' = Tail(raw_frame_queue)
            /\ processing_thread' = "detect"
       ELSE /\ processing_thread' = "loop"
            /\ UNCHANGED <<frame, raw_frame_queue>>
    /\ UNCHANGED <<database_ready, last_recognition_time, app_running,
                   camera_thread, processed_frame_queue, recognition_executor,
                   recognition_future, face_coords, display_scheduled,
                   video_label, setup_done, db_thread, frames_read,
                   tasks_submitted, mono, stabVars, last_recognition_result,
                   nonPipeVars>>

\* the executor after submit(): the task waits in the work queue
Submitted(executor, task) ==
    [executor EXCEPT !.pending = Append(@, task)]

\* lines 432-448: detection (detectMultiScale is called outside any try),
\* then the dispatch gate; submit() on an executor that was shut down
\* raises RuntimeError
ProcDetectAndDispatch(detected) ==
    /\ processing_thread = "detect"
    /\ IF detected = "raise"
       THEN /\ processing_thread' = "died_detect"
            /\ UNCHANGED <<face_coords, last_recognition_time,
                           recognition_executor, recognition_future,
                           tasks_submitted>>
       ELSE /\ face_coords' = (detected = "face")
            /\ IF DispatchGate(detected = "face")
               THEN IF recognition_executor.shutdown
                    THEN /\ processing_thread' = "died_submit"
                         /\ last_recognition_time' = mono
                         /\ UNCHANGED <<recognition_executor, recognition_future,
                                        tasks_submitted>>
                    ELSE /\ tasks_submitted < MaxTasks
                         /\ processing_thread' = "update"
                         /\ last_recognition_time' = mono
                         /\ tasks_submitted' = tasks_submitted + 1
                         /\ recognition_future' = tasks_submitted + 1
                         /\ recognition_executor' =
                                Submitted(recognition_executor, tasks_submitted + 1)
               ELSE /\ processing_thread' = "update"
                    /\ UNCHANGED <<last_recognition_time, recognition_executor,
                                   recognition_future, tasks_submitted>>
    /\ UNCHANGED <<database_ready, app_running, camera_thread, raw_frame_queue,
                   processed_frame_queue, frame, display_scheduled, video_label,
                   setup_done, db_thread, frames_read, mono, stabVars,
                   last_recognition_result, nonPipeVars>>

\* line 450
ProcUpdateState ==
    /\ processing_thread = "update"
    /\ update_recognition_state(last_recognition_result[1])
    /\ processing_thread' = "draw"
    /\ UNCHANGED <<database_ready, last_recognition_time, app_running,
                   camera_thread, raw_frame_queue, processed_frame_queue,
                   recognition_executor, recognition_future, frame, face_coords,
                   display_scheduled, video_label, setup_done, db_thread,
                   frames_read, tasks_submitted, mono, last_recognition_result,
                   nonPipeVars>>

\* lines 451-456: draw_on_frame, then the non-blocking put
ProcDrawAndPut ==
    /\ processing_thread = "draw"
    /\ processed_frame_queue' =
           PutNoWait(processed_frame_queue,
                     AnnotatedFrame(frame, face_coords, last_recognition_result[1],
                                    last_recognition_result[2]))
    /\ processing_thread' = "loop"
    /\ UNCHANGED <<database_ready, last_recognition_time, app_running,
                   camera_thread, raw_frame_queue, recognition_executor,
                   recognition_future, frame, face_coords, display_scheduled,
                   video_label, setup_done, db_thread, frames_read,
                   tasks_submitted, mono, stabVars, last_recognition_result,
                   nonPipeVars>>

\* the worker thread of ThreadPoolExecutor(max_workers=1) takes the next task
ExecutorStartTask ==
    /\ recognition_executor.running = 0
    /\ recognition_executor.pending # <<>>
    /\ recognition_executor' =
           [recognition_executor EXCEPT !.running = Head(recognition_executor.pending),
                                        !.pending = Tail(@)]
    /\ UNCHANGED <<database_ready, last_recognition_time, app_running,
                   camera_thread, processing_thread, raw_frame_queue,
                   processed_frame_queue, recognition_future, frame, face_coords,
                   display_scheduled, video_label, setup_done, db_thread,
                   frames_read, tasks_submitted, mono, stabVars,
                   last_recognition_result, nonPipeVars>>

\* _run_deepface_recognition (lines 458-474) runs to its end
ExecutorFinishTask(o) ==
    /\ recognition_executor.running # 0
    /\ last_recognition_result' = RecognitionResultOf(o)
    /\ recognition_executor' = [recognition_executor EXCEPT !.running = 0]
    /\ UNCHANGED <<database_ready, last_recognition_time, app_running,
                   camera_thread, processing_thread, raw_frame_queue,
                   processed_frame_queue, recognition_future, frame, face_coords,
                   display_scheduled, video_label, setup_done, db_thread,
                   frames_read, tasks_submitted, mono, stabVars, nonPipeVars>>

\* variant: a tick renders the newest queued frame
DisplayLoop_render_newest ==
    /\ display_scheduled
    /\ IF ~app_running
       THEN /\ video_label' = Placeholder
            /\ display_scheduled' = FALSE
            /\ UNCHANGED processed_frame_queue
       ELSE IF processed_frame_queue # <<>>
       THEN /\ video_label' = processed_frame_queue[Len(processed_frame_queue)]
            /\ processed_frame_queue' = Tail(processed_frame_queue)
            /\ UNCHANGED display_scheduled
       ELSE UNCHANGED <<video_label, processed_frame_queue, display_scheduled>>
    /\ UNCHANGED <<database_ready, last_recognition_time, app_running,
                   camera_thread, processing_thread, raw_frame_queue,
                   recognition_executor, recognition_future, frame, face_coords,
                   setup_done, db_thread, frames_read, tasks_submitted, mono,
                   stabVars, last_recognition_result, nonPipeVars>>

\* variant: a tick that finds the queue empty does not schedule the next one
DisplayLoop_stop_on_empty ==
    /\ display_scheduled
    /\ IF ~app_running
       THEN /\ video_label' = Placeholder
            /\ display_scheduled' = FALSE
            /\ UNCHANGED processed_frame_queue
       ELSE IF processed_frame_queue # <<>>
       THEN /\ video_label' = Head(processed_frame_queue)
            /\ processed_frame_queue' = Tail(processed_frame_queue)
            /\ UNCHANGED display_scheduled
       ELSE /\ display_scheduled' = FALSE
            /\ UNCHANGED <<video_label, processed_frame_queue>>
    /\ UNCHANGED <<database_ready, last_recognition_time, app_running,
                   camera_thread, processing_thread, raw_frame_queue,
                   recognition_executor, recognition_future, frame, face_coords,
                   setup_done, db_thread, frames_read, tasks_submitted, mono,
                   stabVars, last_recognition_result, nonPipeVars>>

\* _display_loop (lines 476-490): with the flag clear the placeholder is
\* shown and no tick is scheduled; otherwise get_nowait() takes the head of
\* the queue, or raises queue.Empty and the label keeps its image, and the
\* next tick is scheduled
DisplayLoop ==
    /\ display_scheduled
    /\ IF ~app_running
       THEN /\ video_label' = Placeholder
            /\ display_scheduled' = FALSE
            /\ UNCHANGED processed_frame_queue
       ELSE IF processed_frame_queue # <<>>
       THEN /\ video_label' = Head(processed_frame_queue)
            /\ processed_frame_queue' = Tail(processed_frame_queue)
            /\ UNCHANGED display_scheduled
       ELSE UNCHANGED <<video_label, processed_frame_queue, display_scheduled>>
    /\ UNCHANGED <<database_ready, last_recognition_time, app_running,
                   camera_thread, processing_thread, raw_frame_queue,
                   recognition_executor, recognition_future, frame, face_coords,
                   setup_done, db_thread, frames_read, tasks_submitted, mono,
                   stabVars, last_recognition_result, nonPipeVars>>

\* variant: the shutdown waits for the running task and for both workers
StopAllThreads_wait ==
    /\ setup_done
    /\ ~recognition_executor.shutdown
    /\ recognition_executor.running = 0
    /\ camera_thread = "exited"
    /\ processing_thread = "exited"
    /\ app_running' = FALSE
    /\ recognition_executor' =
           [recognition_executor EXCEPT !.pending = <<>>, !.shutdown = TRUE]
    /\ status_log' = "Shutdown complete."
    /\ UNCHANGED <<database_ready, last_recognition_time, camera_thread,
                   processing_thread, raw_frame_queue, processed_frame_queue,
                   recognition_future, frame, face_coords, display_scheduled,
                   video_label, setup_done, db_thread, frames_read,
                   tasks_submitted, mono, stabVars, last_recognition_result,
                   recently_logged, attendance_log, now, results_published,
                   obsVars, threadVars>>

\* stop_all_threads (lines 323-329): the flag is cleared, the executor is
\* shut down with wait=False and cancel_futures=True, each join is bounded
\* by its timeout of 1.0 s, and "Shutdown complete." is logged
StopAllThreads ==
    /\ setup_done
    /\ ~recognition_executor.shutdown
    /\ app_running' = FALSE
    /\ recognition_executor' =
           [recognition_executor EXCEPT !.pending = <<>>, !.shutdown = TRUE]
    /\ status_log' = "Shutdown complete."
    /\ UNCHANGED <<database_ready, last_recognition_time, camera_thread,
                   processing_thread, raw_frame_queue, processed_frame_queue,
                   recognition_future, frame, face_coords, display_scheduled,
                   video_label, setup_done, db_thread, frames_read,
                   tasks_submitted, mono, stabVars, last_recognition_result,
                   recently_logged, attendance_log, now, results_published,
                   obsVars, threadVars>>

\* time.monotonic() advances by one unit
TickMono ==
    /\ mono < MaxMono
    /\ mono' = mono + 1
    /\ UNCHANGED <<database_ready, last_recognition_time, app_running,
                   camera_thread, processing_thread, raw_frame_queue,
                   processed_frame_queue, recognition_executor,
                   recognition_future, frame, face_coords, display_scheduled,
                   video_label, setup_done, db_thread, frames_read,
                   tasks_submitted, stabVars, last_recognition_result,
                   nonPipeVars>>

Next ==
    \/ RunInitialSetup
    \/ \E ok \in BOOLEAN : InitializeModels(ok)
    \/ \E opened \in BOOLEAN : CameraOpen(opened)
    \/ CameraCapture
    \/ CameraExit
    \/ ProcCheckRunning
    \/ ProcGetFrame
    \/ \E detected \in {"face", "noface", "raise"} : ProcDetectAndDispatch(detected)
    \/ ProcUpdateState
    \/ ProcDrawAndPut
    \/ ExecutorStartTask
    \/ \E o \in RecognizerOutcomes : ExecutorFinishTask(o)
    \/ DisplayLoop
    \/ StopAllThreads
    \/ TickMono

Spec == Init /\ [][Next]_vars

\* ------------------------------------------------------------------------
\* update_recognition_state and mark_attendance line by line, as the
\* processing thread and the callers of mark_attendance interleave
\* ------------------------------------------------------------------------
UpdateReturn ==
    /\ update_pc' = "idle"
    /\ most_common_name' = None
    /\ count' = 0
    /\ proportion' = 0

UpdateRaise ==
    /\ update_pc' = "died"
    /\ UNCHANGED <<most_common_name, count, proportion>>

updFrame == <<attendVars, resultVars, obsVars, last_outcome, markVars, restartVars,
             tearVars, pipeVars>>

\* lines 450, 493: the call with the cached label; history.append(name)
UpdateAppend ==
    /\ update_pc = "idle"
    /\ recognition_history' = Append(recognition_history, last_recognition_result[1])
    /\ update_pc' = "l494"
    /\ UNCHANGED <<locked_in_person, stable_recognition_count, most_common_name,
                   count, proportion, updFrame>>

\* line 494: if len(history) > HISTORY_MAX_LENGTH
UpdateCheckLength ==
    /\ update_pc = "l494"
    /\ update_pc' = IF Len(recognition_history) > HISTORY_MAX_LENGTH
                    THEN "l495" ELSE "l497"
    /\ UNCHANGED <<stabVars, most_common_name, count, proportion, updFrame>>

\* line 495: history.pop(0); IndexError on an empty list
UpdatePop ==
    /\ update_pc = "l495"
    /\ IF recognition_history = <<>>
       THEN UpdateRaise /\ UNCHANGED recognition_history
       ELSE /\ recognition_history' = Tail(recognition_history)
            /\ update_pc' = "l497"
            /\ UNCHANGED <<most_common_name, count, proportion>>
    /\ UNCHANGED <<locked_in_person, stable_recognition_count, updFrame>>

\* line 497: if not history: return
UpdateCheckEmpty ==
    /\ update_pc = "l497"
    /\ IF recognition_history = <<>>
       THEN UpdateReturn
       ELSE update_pc' = "l499" /\ UNCHANGED <<most_common_name, count, proportion>>
    /\ UNCHANGED <<stabVars, updFrame>>

\* line 499: Counter(history).most_common(1)[0]; IndexError on an empty list
UpdateMostCommon ==
    /\ update_pc = "l499"
    /\ IF recognition_history = <<>>
       THEN UpdateRaise
       ELSE /\ most_common_name' = MostCommonName(recognition_history)
            /\ count' = Count(recognition_history, MostCommonName(recognition_history))
            /\ update_pc' = "l500"
            /\ UNCHANGED proportion
    /\ UNCHANGED <<stabVars, updFrame>>

\* lines 500-502: proportion = count / len(history), in percent
\* (ZeroDivisionError on an empty list), and the confidence condition
UpdateProportion ==
    /\ update_pc = "l500"
    /\ IF recognition_history = <<>>
       THEN UpdateRaise
       ELSE /\ proportion' = (count * PERCENT_BASE) \div Len(recognition_history)
            /\ update_pc' = IF /\ most_common_name \notin Sentinels
                               /\ proportion' >= CONFIDENCE_THRESHOLD_PERCENT
                            THEN "l503" ELSE "l510"
            /\ UNCHANGED <<most_common_name, count>>
    /\ UNCHANGED <<stabVars, updFrame>>

\* lines 503-504: the stable count is incremented while below the requirement
UpdateStable ==
    /\ update_pc = "l503"
    /\ IF stable_recognition_count < REQUIRED_STABLE_FRAMES
       THEN /\ stable_recognition_count' = stable_recognition_count + 1
            /\ UpdateReturn
       ELSE /\ update_pc' = "l506"
            /\ UNCHANGED <<stable_recognition_count, most_common_name, count, proportion>>
    /\ UNCHANGED <<locked_in_person, recognition_history, updFrame>>

\* line 506: if locked_in_person != most_common_name
UpdateCompareLocked ==
    /\ update_pc = "l506"
    /\ IF locked_in_person # most_common_name
       THEN update_pc' = "l507" /\ UNCHANGED <<most_common_name, count, proportion>>
       ELSE UpdateReturn
    /\ UNCHANGED <<stabVars, updFrame>>

\* line 507: locked_in_person = most_common_name
UpdateLock ==
    /\ update_pc = "l507"
    /\ locked_in_person' = most_common_name
    /\ UpdateReturn
    /\ UNCHANGED <<recognition_history, stable_recognition_count, updFrame>>

\* line 510: stable_recognition_count = 0
UpdateResetStable ==
    /\ update_pc = "l510"
    /\ stable_recognition_count' = 0
    /\ update_pc' = "l511"
    /\ UNCHANGED <<locked_in_person, recognition_history, most_common_name,
                   count, proportion, updFrame>>

\* line 511: if locked_in_person
UpdateCheckLocked ==
    /\ update_pc = "l511"
    /\ IF locked_in_person # None
       THEN update_pc' = "l512" /\ UNCHANGED <<most_common_name, count, proportion>>
       ELSE UpdateReturn
    /\ UNCHANGED <<stabVars, updFrame>>

\* line 512: locked_in_person = None
UpdateUnlock ==
    /\ update_pc = "l512"
    /\ locked_in_person' = None
    /\ update_pc' = "l513"
    /\ UNCHANGED <<recognition_history, stable_recognition_count, most_common_name,
                   count, proportion, updFrame>>

\* line 513: history.clear()
UpdateClear ==
    /\ update_pc = "l513"
    /\ recognition_history' = <<>>
    /\ UpdateReturn
    /\ UNCHANGED <<locked_in_person, stable_recognition_count, updFrame>>

markFrame == <<resultVars, obsVars, last_outcome, updVars, restartVars, tearVars,
              pipeVars>>

SetCall(c, call) == mark_calls' = [mark_calls EXCEPT ![c] = call]

\* line 332, the test: if self.locked_in_person
ManualMarkCheck ==
    /\ mark_calls["ui"].pc = "idle"
    /\ locked_in_person # None
    /\ SetCall("ui", [IdleCall EXCEPT !.pc = "l332"])
    /\ UNCHANGED <<stabVars, attendVars, write_lock, markFrame>>

\* line 332, the call: self.mark_attendance(self.locked_in_person), the
\* second read of the field, and line 893
ManualMarkCall ==
    /\ mark_calls["ui"].pc = "l332"
    /\ SetCall("ui", [IdleCall EXCEPT !.pc = "l894",
                                      !.name = locked_in_person, !.t = now])
    /\ UNCHANGED <<stabVars, attendVars, write_lock, markFrame>>

\* mark_attendance(name) called by a thread, line 893
DirectCall(c, name) ==
    /\ mark_calls[c].pc = "idle"
    /\ Len(attendance_log) < MaxGateEntries
    /\ SetCall(c, [IdleCall EXCEPT !.pc = "l894", !.name = name, !.t = now])
    /\ UNCHANGED <<stabVars, attendVars, write_lock, markFrame>>

\* lines 894-922: the cooldown check and the record of the identity; with
\* None as the name the test of line 894 is false and name.replace at
\* line 897 raises AttributeError, which ends the call
MarkCheckCooldown(c, record) ==
    LET call == mark_calls[c]
    IN  /\ call.pc = "l894"
        /\ IF call.name = None
           THEN SetCall(c, IdleCall) /\ UNCHANGED status_log
           ELSE IF /\ call.name \in DOMAIN recently_logged
                   /\ call.t < recently_logged[call.name]
           THEN SetCall(c, IdleCall) /\ UNCHANGED status_log
           ELSE IF record \notin {"Student", "Faculty"}
           THEN /\ SetCall(c, IdleCall)
                /\ status_log' = IF record = "missing"
                                 THEN "ERROR: Details file not found"
                                 ELSE IF record = "unreadable"
                                 THEN "ERROR: Could not read details"
                                 ELSE "WARNING: Unknown user type"
           ELSE /\ SetCall(c, [call EXCEPT !.pc = "l924", !.record = record])
                /\ UNCHANGED status_log
        /\ UNCHANGED <<stabVars, recently_logged, attendance_log, now, write_lock,
                       markFrame>>

\* line 924: with self.write_lock
MarkAcquire(c) ==
    /\ mark_calls[c].pc = "l924"
    /\ write_lock = None
    /\ write_lock' = c
    /\ SetCall(c, [mark_calls[c] EXCEPT !.pc = "l927"])
    /\ UNCHANGED <<stabVars, attendVars, markFrame>>

\* lines 926-929 and 935-936: the row is appended and logged, or the write
\* raises, the error is logged and the lock is released
MarkWrite(c, write_ok) ==
    LET call == mark_calls[c]
    IN  /\ call.pc = "l927"
        /\ IF write_ok
           THEN /\ attendance_log' = Append(attendance_log,
                                            AttendanceEntry(call.name, call.record, call.t))
                /\ status_log' = "LOGGED"
                /\ SetCall(c, [call EXCEPT !.pc = "l930"])
                /\ UNCHANGED write_lock
           ELSE /\ status_log' = "ERROR writing"
                /\ SetCall(c, IdleCall)
                /\ write_lock' = None
                /\ UNCHANGED attendance_log
        /\ UNCHANGED <<stabVars, recently_logged, now, markFrame>>

\* line 930: recently_logged[name] = now + timedelta(seconds=300)
MarkSetCooldown(c) ==
    LET call == mark_calls[c]
    IN  /\ call.pc = "l930"
        /\ recently_logged' = CooldownAfterCommit(recently_logged, call.name, call.t)
        /\ SetCall(c, [call EXCEPT !.pc = "l931"])
        /\ UNCHANGED <<stabVars, attendance_log, status_log, now, write_lock, markFrame>>

\* line 931: locked_in_person = None
MarkResetLocked(c) ==
    /\ mark_calls[c].pc = "l931"
    /\ locked_in_person' = None
    /\ SetCall(c, [mark_calls[c] EXCEPT !.pc = "l932"])
    /\ UNCHANGED <<recognition_history, stable_recognition_count, attendVars,
                   write_lock, markFrame>>

\* lines 932-934: history.clear(); the with block ends
MarkClearHistory(c) ==
    /\ mark_calls[c].pc = "l932"
    /\ recognition_history' = <<>>
    /\ SetCall(c, IdleCall)
    /\ write_lock' = None
    /\ UNCHANGED <<locked_in_person, stable_recognition_count, attendVars, markFrame>>

\* ------------------------------------------------------------------------
\* SpecRace: the processing thread in update_recognition_state against the
\* UI thread in manual_mark_attendance
\* ------------------------------------------------------------------------
\* a recognition task finishes and stores its result (lines 468-474)
PublishRace(o) ==
    /\ results_published < MaxRaceResults
    /\ PublishCounted(o)

RaceOutcomes == {o \in StabOutcomes : o.kind # "raise"}

NextRace ==
    \/ \E o \in RaceOutcomes : PublishRace(o)
    \/ UpdateAppend
    \/ UpdateCheckLength
    \/ UpdatePop
    \/ UpdateCheckEmpty
    \/ UpdateMostCommon
    \/ UpdateProportion
    \/ UpdateStable
    \/ UpdateCompareLocked
    \/ UpdateLock
    \/ UpdateResetStable
    \/ UpdateCheckLocked
    \/ UpdateUnlock
    \/ UpdateClear
    \/ ManualMarkCheck
    \/ ManualMarkCall
    \/ \E record \in {"Student", "missing"} : MarkCheckCooldown("ui", record)
    \/ MarkAcquire("ui")
    \/ \E write_ok \in BOOLEAN : MarkWrite("ui", write_ok)
    \/ MarkSetCooldown("ui")
    \/ MarkResetLocked("ui")
    \/ MarkClearHistory("ui")

SpecRace == Init /\ [][NextRace]_vars

\* ------------------------------------------------------------------------
\* SpecGate: mark_attendance called by two threads
\* ------------------------------------------------------------------------
NextGate ==
    \/ \E c \in Callers, name \in Identities : DirectCall(c, name)
    \/ \E c \in Callers, record \in RecordKinds : MarkCheckCooldown(c, record)
    \/ \E c \in Callers : MarkAcquire(c)
    \/ \E c \in Callers, write_ok \in BOOLEAN : MarkWrite(c, write_ok)
    \/ \E c \in Callers : MarkSetCooldown(c)
    \/ \E c \in Callers : MarkResetLocked(c)
    \/ \E c \in Callers : MarkClearHistory(c)
    \/ TickWall

SpecGate == Init /\ [][NextGate]_vars

\* ------------------------------------------------------------------------
\* Camera sessions: stop_camera, start_camera and stop_all_threads against
\* the worker threads they have started
\* ------------------------------------------------------------------------
\* the frames of these sessions are not told apart
AnyFrame == "frame"

\* a worker thread: its position, whether the flag was cleared while it
\* was alive, and whether it has passed its loop condition since then
NewWorker(pc) == [pc |-> pc, cleared |-> FALSE, revived |-> FALSE]

Alive(w) == w.pc # "exited"

\* app_running.clear() as the live workers meet it
FlagCleared(workers) ==
    [i \in 1..Len(workers) |->
        IF Alive(workers[i]) THEN [workers[i] EXCEPT !.cleared = TRUE] ELSE workers[i]]

\* a loop condition `while self.app_running.is_set()` evaluated by worker w
LoopCheck(w, body) ==
    IF app_running
    THEN [w EXCEPT !.pc = body, !.revived = w.cleared]
    ELSE [w EXCEPT !.pc = "exited"]

restartRest == <<stabVars, resultVars, obsVars, last_outcome,
                  updVars, markVars, tearVars, database_ready,
                  last_recognition_time, camera_thread, processing_thread,
                  recognition_future, frame, face_coords, display_scheduled,
                  video_label, setup_done, db_thread, frames_read,
                  tasks_submitted, mono>>
restartFrame == <<attendVars, restartRest>>

\* stop_camera, line 404 (also the first line of start_camera, 394):
\* app_running.clear(); the joins of lines 405-406 follow
StopCameraBegin(op) ==
    /\ camera_ui = "idle"
    /\ op = "start" => Len(acq_workers) < MaxStarts
    /\ camera_ui' = op
    /\ app_running' = FALSE
    /\ acq_workers' = FlagCleared(acq_workers)
    /\ proc_workers' = FlagCleared(proc_workers)
    /\ UNCHANGED <<raw_frame_queue, processed_frame_queue, recognition_executor,
                   restartFrame>>

\* lines 405-410: each join has returned, because the thread ended or
\* because 0.5 s have passed, and the queues are drained; as part of
\* start_camera, lines 395-399 follow: the flag is set and two new
\* threads are started
StopCameraEnd ==
    /\ camera_ui \in {"stop", "start"}
    /\ camera_ui' = "idle"
    /\ raw_frame_queue' = <<>>
    /\ processed_frame_queue' = <<>>
    /\ IF camera_ui = "start"
       THEN /\ app_running' = TRUE
            /\ acq_workers' = Append(acq_workers, NewWorker("open"))
            /\ proc_workers' = Append(proc_workers, NewWorker("check"))
       ELSE UNCHANGED <<app_running, acq_workers, proc_workers>>
    /\ UNCHANGED <<recognition_executor, restartFrame>>

\* stop_all_threads (lines 323-329); the joins are bounded by 1.0 s each
StopAllSessions ==
    /\ camera_ui = "idle"
    /\ ~recognition_executor.shutdown
    /\ app_running' = FALSE
    /\ recognition_executor' =
           [recognition_executor EXCEPT !.pending = <<>>, !.shutdown = TRUE]
    /\ acq_workers' = FlagCleared(acq_workers)
    /\ proc_workers' = FlagCleared(proc_workers)
    /\ status_log' = "Shutdown complete."
    /\ UNCHANGED <<camera_ui, raw_frame_queue, processed_frame_queue,
                   recently_logged, attendance_log, now, restartRest>>

\* _camera_capture_worker, lines 413-417
AcqOpen(i, opened) ==
    /\ i \in 1..Len(acq_workers)
    /\ acq_workers[i].pc = "open"
    /\ acq_workers' = [acq_workers EXCEPT ![i].pc = IF opened THEN "check" ELSE "exited"]
    /\ UNCHANGED <<camera_ui, app_running, proc_workers, raw_frame_queue,
                   processed_frame_queue, recognition_executor, restartFrame>>

\* line 418: the loop condition; line 423 when it fails
AcqCheck(i) ==
    /\ i \in 1..Len(acq_workers)
    /\ acq_workers[i].pc = "check"
    /\ acq_workers' = [acq_workers EXCEPT ![i] = LoopCheck(@, "read")]
    /\ UNCHANGED <<camera_ui, app_running, proc_workers, raw_frame_queue,
                   processed_frame_queue, recognition_executor, restartFrame>>

\* lines 419-422: cap.read() returns; a frame is enqueued without blocking
AcqRead(i, ret) ==
    /\ i \in 1..Len(acq_workers)
    /\ acq_workers[i].pc = "read"
    /\ acq_workers' = [acq_workers EXCEPT ![i].pc = "check"]
    /\ raw_frame_queue' = IF ret THEN PutNoWait(raw_frame_queue, AnyFrame) ELSE raw_frame_queue
    /\ UNCHANGED <<camera_ui, app_running, proc_workers, processed_frame_queue,
                   recognition_executor, restartFrame>>

\* _frame_processing_worker, line 426: the loop condition
ProcCheck(i) ==
    /\ i \in 1..Len(proc_workers)
    /\ proc_workers[i].pc = "check"
    /\ proc_workers' = [proc_workers EXCEPT ![i] = LoopCheck(@, "get")]
    /\ UNCHANGED <<camera_ui, app_running, acq_workers, raw_frame_queue,
                   processed_frame_queue, recognition_executor, restartFrame>>

\* lines 427-430: get(timeout=1.0) returns a frame or raises queue.Empty
ProcGet(i) ==
    /\ i \in 1..Len(proc_workers)
    /\ proc_workers[i].pc = "get"
    /\ IF raw_frame_queue # <<>>
       THEN /\ raw_frame_queue' = Tail(raw_frame_queue)
            /\ proc_workers' = [proc_workers EXCEPT ![i].pc = "work"]
       ELSE /\ proc_workers' = [proc_workers EXCEPT ![i].pc = "check"]
            /\ UNCHANGED raw_frame_queue
    /\ UNCHANGED <<camera_ui, app_running, acq_workers, processed_frame_queue,
                   recognition_executor, restartFrame>>

\* lines 432-456, reduced to their last step: the annotated frame is
\* enqueued without blocking
ProcWork(i) ==
    /\ i \in 1..Len(proc_workers)
    /\ proc_workers[i].pc = "work"
    /\ proc_workers' = [proc_workers EXCEPT ![i].pc = "check"]
    /\ processed_frame_queue' = PutNoWait(processed_frame_queue, AnyFrame)
    /\ UNCHANGED <<camera_ui, app_running, acq_workers, raw_frame_queue,
                   recognition_executor, restartFrame>>

NextRestart ==
    \/ \E op \in {"stop", "start"} : StopCameraBegin(op)
    \/ StopCameraEnd
    \/ StopAllSessions
    \/ \E i \in 1..MaxStarts, opened \in BOOLEAN : AcqOpen(i, opened)
    \/ \E i \in 1..MaxStarts : AcqCheck(i)
    \/ \E i \in 1..MaxStarts, ret \in BOOLEAN : AcqRead(i, ret)
    \/ \E i \in 1..MaxStarts : ProcCheck(i)
    \/ \E i \in 1..MaxStarts : ProcGet(i)
    \/ \E i \in 1..MaxStarts : ProcWork(i)

SpecRestart == Init /\ [][NextRestart]_vars

\* ------------------------------------------------------------------------
\* Properties of the stabilization machine (SpecStab)
\* ------------------------------------------------------------------------
Repeat(l, k) == [i \in 1..k |-> l]

IsPrefix(s, t) == Len(s) <= Len(t) /\ \A i \in 1..Len(s) : s[i] = t[i]

AfterFeed == last_call.op = "feed"

\* C2 as stated: from the initial state, "A" on consecutive frames locks
\* "A" immediately after the 4th call of update_recognition_state.
C2_LockedAfterFourthFrame ==
    (AfterFeed /\ ~fed_over /\ fed = Repeat("A", REQUIRED_STABLE_FRAMES))
        => locked_in_person = "A"

\* C2 amended: from the initial state, "A" on eight consecutive frames:
\* after each of the first four calls nothing is locked and the stable
\* count equals the number of frames; the machine enters Locked("A") on
\* the 5th frame and is Locked("A") after each of the frames 5..8.
C2_LockedOnFifthFrame ==
    \A k \in 1..HISTORY_MAX_LENGTH :
        (AfterFeed /\ ~fed_over /\ fed = Repeat("A", k)) =>
            IF k <= REQUIRED_STABLE_FRAMES
            THEN locked_in_person = None /\ stable_recognition_count = k
            ELSE locked_in_person = "A"

C2_Witness ==
    /\ AfterFeed /\ ~fed_over
    /\ fed = Repeat("A", REQUIRED_STABLE_FRAMES + 1)
    /\ locked_in_person = "A"

\* C3 as stated: when the last HISTORY_MAX_LENGTH labels fed are the same
\* identity M, the machine is in Locked(M) after the last of them.
C3_LockedAfterCapacityRun ==
    (AfterFeed /\ run_label \in Identities /\ run_len >= HISTORY_MAX_LENGTH)
        => locked_in_person = run_label

\* consecutive equal labels that lock from every state: 6 of 8 to reach the
\* proportion, REQUIRED_STABLE_FRAMES increments, one more frame to lock
LockRunLength == HISTORY_MAX_LENGTH + 2

\* C3 amended: when the last HISTORY_MAX_LENGTH + 2 = 10 labels fed are the
\* same identity M, the machine is in Locked(M) after the last of them.
C3_LockedAfterLongRun ==
    (AfterFeed /\ run_label \in Identities /\ run_len >= LockRunLength)
        => locked_in_person = run_label

\* a run of ten equal identities fed to a machine that had seen more than
\* MaxFed labels
C3_Witness ==
    /\ AfterFeed /\ run_label \in Identities /\ run_len = LockRunLength
    /\ locked_in_person = run_label
    /\ fed_over

\* C4: when the machine is Locked(M) and the processed frame makes the
\* confidence condition fail, then right after that call nothing is
\* locked, the stable count is 0 and the history is empty.
C4_UnlockClearsHistory ==
    [][ ( /\ last_call'.op = "feed"
          /\ locked_in_person # None
          /\ ~ConfidenceHolds(AppendHistory(recognition_history, last_call'.name)) )
        => ( /\ locked_in_person' = None
             /\ stable_recognition_count' = 0
             /\ recognition_history' = <<>> ) ]_vars

\* only the unlock leaves an empty history behind a call
C4_Witness ==
    /\ AfterFeed
    /\ recognition_history = <<>>
    /\ locked_in_person = None
    /\ stable_recognition_count = 0

Scenario5 == <<"A", "A", "A", "Unknown", "Unknown", "Unknown", "Unknown", "Unknown">>

\* C5: from the initial state the labels A, A, A, Unknown x 5 never lock
\* an identity at any of the eight frames, and the stable count is 0 after
\* the last one.
C5_NoLockWhenUnknownDominates ==
    (~fed_over /\ IsPrefix(fed, Scenario5)) =>
        /\ locked_in_person = None
        /\ (fed = Scenario5 => stable_recognition_count = 0)

C5_Witness ==
    /\ AfterFeed /\ ~fed_over /\ fed = Scenario5
    /\ locked_in_person = None /\ stable_recognition_count = 0

\* ------------------------------------------------------------------------
\* Properties of the attendance gate (SpecAttend)
\* ------------------------------------------------------------------------
AfterMark == last_call.op = "mark"

\* a log entry of the identity was written less than the cooldown ago
RecentlyCommitted(name) ==
    \E i \in 1..Len(attendance_log) :
        /\ attendance_log[i].name = name
        /\ now < attendance_log[i].time + LOG_COOLDOWN_SECONDS

\* no identity has two log entries less than the cooldown apart
OneEntryPerCooldown ==
    \A i, j \in 1..Len(attendance_log) :
        (i < j /\ attendance_log[i].name = attendance_log[j].name) =>
            attendance_log[j].time >= attendance_log[i].time + LOG_COOLDOWN_SECONDS

\* C6: after a successful mark_attendance(identity), a second call for the
\* same identity before 300 s have elapsed writes nothing: one log entry in
\* total, and the CooldownTable and the stabilization state are unchanged.
C6_SecondCommitIsNoOp ==
    /\ []OneEntryPerCooldown
    /\ [][ (last_call'.op = "mark" /\ RecentlyCommitted(last_call'.name))
           => UNCHANGED <<attendance_log, recently_logged, stabVars>> ]_vars

\* the identity was locked again and marked again inside its cooldown
C6_Witness ==
    /\ AfterMark
    /\ last_call.record \in {"Student", "Faculty"} /\ last_call.write_ok
    /\ RecentlyCommitted(last_call.name)
    /\ locked_in_person = last_call.name
    /\ Len(attendance_log) = 1

\* C7: mark_attendance(identity) with no CooldownTable entry or an expired
\* one, a valid record and a successful write appends one log entry, sets
\* CooldownTable[identity] = now + 300 s and resets the machine to Unlocked
\* (no locked identity, empty history).
C7_CommitEffects ==
    [][ ( /\ last_call'.op = "mark"
          /\ ~( /\ last_call'.name \in DOMAIN recently_logged
                /\ now < recently_logged[last_call'.name] )
          /\ last_call'.record \in {"Student", "Faculty"}
          /\ last_call'.write_ok )
        => ( /\ attendance_log' =
                    Append(attendance_log,
                           AttendanceEntry(last_call'.name, last_call'.record, now))
             /\ last_call'.name \in DOMAIN recently_logged'
             /\ recently_logged'[last_call'.name] = now + LOG_COOLDOWN_SECONDS
             /\ locked_in_person' = None
             /\ recognition_history' = <<>> ) ]_vars

\* a commit of an identity whose earlier cooldown has expired
C7_Witness ==
    /\ AfterMark /\ last_call.write_ok
    /\ Len(attendance_log) = 2
    /\ attendance_log[1].name = last_call.name
    /\ attendance_log[2].name = last_call.name
    /\ attendance_log[2].time = now
    /\ recently_logged[last_call.name] = now + LOG_COOLDOWN_SECONDS
    /\ locked_in_person = None /\ recognition_history = <<>>

\* C8: when the log write fails, the CooldownTable and the locked identity
\* are left as they were, so the identity is still offered and a later call
\* is not suppressed by a cooldown.
C8_FailedWriteKeepsRetry ==
    /\ [][ ( /\ last_call'.op = "mark"
             /\ ~RecentlyCommitted(last_call'.name)
             /\ last_call'.record \in {"Student", "Faculty"}
             /\ ~last_call'.write_ok )
           => ( /\ UNCHANGED <<recently_logged, attendance_log, stabVars>>
                /\ status_log' = "ERROR writing" ) ]_vars
    /\ []( (AfterMark /\ status_log = "ERROR writing")
           => ( /\ locked_in_person = last_call.name
                /\ ~OnCooldown(last_call.name) ) )

C8_Witness ==
    /\ AfterMark /\ ~last_call.write_ok
    /\ status_log = "ERROR writing"
    /\ locked_in_person = last_call.name
    /\ ~OnCooldown(last_call.name)

\* ------------------------------------------------------------------------
\* Properties of the pipeline (Spec)
\* ------------------------------------------------------------------------
\* C1: at most one recognition task is in flight (submitted and not
\* finished, pending in the executor or running) at any instant.
C1_AtMostOneInFlight == InFlight(recognition_executor) <= 1

\* a step of the camera worker that read a frame
CameraEnqueues == frames_read' # frames_read

\* a step of the processing worker that ends its iteration
ProcEnqueues == processing_thread = "draw" /\ processing_thread' # "draw"

\* C9: both channels hold at most 2 items in every state, and an enqueue
\* on a full channel drops the new item, leaves the channel as it was and
\* lets the worker go on with its loop.
C9_BoundedDropNewest ==
    /\ [](Len(raw_frame_queue) <= 2 /\ Len(processed_frame_queue) <= 2)
    /\ [][ (CameraEnqueues /\ Len(raw_frame_queue) = 2)
           => (raw_frame_queue' = raw_frame_queue /\ camera_thread' = "loop") ]_vars
    /\ [][ (ProcEnqueues /\ Len(processed_frame_queue) = 2)
           => ( /\ processed_frame_queue' = processed_frame_queue
                /\ processing_thread' = "loop" ) ]_vars

\* frame 3 was dropped at the raw channel (frame 4 followed frame 2 through
\* it) and the annotated frame 4 was dropped at the output channel
C9_Witness ==
    /\ processing_thread = "loop"
    /\ frame = 4
    /\ Len(processed_frame_queue) = 2
    /\ processed_frame_queue[1].frame = 1
    /\ processed_frame_queue[2].frame = 2
    /\ video_label = NoImage

\* C10: a detector exception never terminates the Processing Worker.
C10_DetectorErrorAbsorbed == processing_thread # "died_detect"

\* ------------------------------------------------------------------------
\* C11: result normalization of the recognition task
\* ------------------------------------------------------------------------
AfterPublish == last_call.op = "publish"

\* C11: whatever the Recognizer did, the task has stored one pair: the
\* identity with its distance for a best match below the threshold,
\* "Unknown" with the distance for a best match at or above it, and
\* "Unknown" with an infinite distance for an empty result or an exception;
\* an identity is stored only for a match below the threshold
C11_NormalizedResult ==
    AfterPublish =>
        LET o == last_outcome
            r == last_recognition_result
        IN  /\ (o.kind = "match" /\ o.distance < DEEPFACE_DISTANCE_THRESHOLD)
                => r = <<o.name, o.distance>>
            /\ (o.kind = "match" /\ o.distance >= DEEPFACE_DISTANCE_THRESHOLD)
                => r = <<"Unknown", o.distance>>
            /\ o.kind \in {"empty", "raise"} => r = <<"Unknown", INF>>
            /\ r[1] \in Identities
                => (o.kind = "match" /\ o.distance < DEEPFACE_DISTANCE_THRESHOLD)
            /\ o.kind \in {"match", "empty", "raise"}

\* a best match exactly at the threshold was stored as "Unknown"
C11_Witness ==
    /\ AfterPublish
    /\ last_outcome.kind = "match"
    /\ last_outcome.distance = DEEPFACE_DISTANCE_THRESHOLD
    /\ last_recognition_result = <<"Unknown", DEEPFACE_DISTANCE_THRESHOLD>>
    /\ results_published = MaxResults

\* ------------------------------------------------------------------------
\* C12, C13: the locked identity and the threads that write it
\* ------------------------------------------------------------------------
\* no thread is inside update_recognition_state or mark_attendance
Quiescent ==
    /\ update_pc = "idle"
    /\ \A c \in Callers : mark_calls[c].pc = "idle"

\* C12: whenever locked_in_person holds an identity M (observed while no
\* thread is in the middle of an operation), M is not a sentinel label, M
\* is the most frequent label of recognition_history, and its proportion
\* in the history is at least 0.75
C12_LockedIsConfident ==
    (Quiescent /\ locked_in_person # None) =>
        /\ locked_in_person \notin Sentinels
        /\ recognition_history # <<>>
        /\ MostCommonName(recognition_history) = locked_in_person
        /\ Count(recognition_history, locked_in_person) * PERCENT_BASE
               >= CONFIDENCE_THRESHOLD_PERCENT * Len(recognition_history)

\* a step of the processing thread: every line of update_recognition_state
\* moves update_pc, and no other thread does
ProcessingWorkerStep == update_pc' # update_pc

\* C13: recognition_history, stable_recognition_count and locked_in_person
\* are written only by steps of the Processing Worker thread; a step of
\* any other thread, the UI thread in mark_attendance included, leaves
\* the three fields as they are
C13_OnlyProcessingWorkerWrites ==
    [][ (stabVars' # stabVars) => ProcessingWorkerStep ]_vars

\* ------------------------------------------------------------------------
\* C14: two threads in mark_attendance
\* ------------------------------------------------------------------------
\* the rows of the log written for an identity by calls that read the
\* clock at t
EntriesAt(name, t) ==
    {i \in 1..Len(attendance_log) :
        attendance_log[i].name = name /\ attendance_log[i].time = t}

\* C14: calls of mark_attendance for one identity that overlap, all started
\* while no cooldown was active for it, write one log entry between them:
\* the log never holds two rows of one identity less than the cooldown
\* apart, in particular never two rows made at the same instant
C14_OneEntryForConcurrentCalls ==
    \A name \in Identities :
        /\ \A t \in 0..MaxNow : Cardinality(EntriesAt(name, t)) <= 1
        /\ \A i, j \in 1..Len(attendance_log) :
               (i < j /\ attendance_log[i].name = name /\ attendance_log[j].name = name)
                   => attendance_log[j].time
                          >= attendance_log[i].time + LOG_COOLDOWN_SECONDS

\* ------------------------------------------------------------------------
\* C15: the dispatch gate
\* ------------------------------------------------------------------------
\* the processing thread finishes lines 432-448 of one iteration
DispatchIteration ==
    /\ processing_thread = "detect"
    /\ processing_thread' \in {"update", "died_submit"}

\* a task is handed to the executor
SubmissionStep == tasks_submitted' # tasks_submitted

\* lines 446: database ready, a face in this frame, and more than
\* RECOGNITION_INTERVAL since the last dispatch
DispatchConditions ==
    /\ database_ready
    /\ face_coords'
    /\ mono - last_recognition_time > RECOGNITION_INTERVAL

\* C15: a task is submitted only by an iteration of the processing thread
\* in which the database is ready, a face was detected in the frame and
\* more than the recognition interval has passed since the last dispatch;
\* the submission stores the current time as the last dispatch time; an
\* iteration in which one of the three conditions fails submits nothing
\* and leaves the last dispatch time alone
C15_DispatchGate ==
    [][ /\ SubmissionStep =>
              /\ DispatchIteration
              /\ DispatchConditions
              /\ tasks_submitted' = tasks_submitted + 1
              /\ recognition_executor'.pending =
                     Append(recognition_executor.pending, tasks_submitted')
              /\ last_recognition_time' = mono
        /\ (DispatchIteration /\ ~DispatchConditions) =>
              /\ tasks_submitted' = tasks_submitted
              /\ recognition_executor' = recognition_executor
              /\ last_recognition_time' = last_recognition_time ]_vars

\* the second submission has just been made, one interval after the first
C15_Witness ==
    /\ processing_thread = "update"
    /\ tasks_submitted = 2
    /\ recognition_future = 2
    /\ last_recognition_time = mono
    /\ face_coords
    /\ database_ready

\* ------------------------------------------------------------------------
\* C16, C17: one step of update_recognition_state
\* ------------------------------------------------------------------------
\* the history of the step once the label is in: the label appended, the
\* oldest label dropped when there were already HISTORY_MAX_LENGTH
HistoryWith(h, l) ==
    IF Len(h) < HISTORY_MAX_LENGTH THEN Append(h, l) ELSE Append(Tail(h), l)

\* the confidence condition holds for the label M on the history h
ConfidentFor(h, M) ==
    /\ M \in Range(h)
    /\ M \notin Sentinels
    /\ \A l \in Range(h) : l # M => Count(h, M) > Count(h, l)
    /\ Count(h, M) * PERCENT_BASE >= CONFIDENCE_THRESHOLD_PERCENT * Len(h)

\* C16: on a frame where the confidence condition holds for a label M, a
\* stable count below REQUIRED_STABLE_FRAMES is incremented and the locked
\* identity is left as it was; otherwise the stable count is left as it
\* was and the locked identity becomes M. A step of the machine that
\* locks an identity starts with the stable count at REQUIRED_STABLE_FRAMES.
C16_IncrementThenLock ==
    [][ last_call'.op = "feed" =>
          /\ \A M \in Identities :
                ConfidentFor(HistoryWith(recognition_history, last_call'.name), M) =>
                    IF stable_recognition_count < REQUIRED_STABLE_FRAMES
                    THEN /\ stable_recognition_count' = stable_recognition_count + 1
                         /\ locked_in_person' = locked_in_person
                    ELSE /\ stable_recognition_count' = stable_recognition_count
                         /\ locked_in_person' = M
          /\ (locked_in_person' # None /\ locked_in_person' # locked_in_person)
                => stable_recognition_count = REQUIRED_STABLE_FRAMES ]_vars

\* the frame after four increments has just locked "B"
C16_Witness ==
    /\ AfterFeed
    /\ run_label = "B" /\ run_len = REQUIRED_STABLE_FRAMES + 1
    /\ recognition_history = Repeat("B", REQUIRED_STABLE_FRAMES + 1)
    /\ stable_recognition_count = REQUIRED_STABLE_FRAMES
    /\ locked_in_person = "B"

\* C17: after every call of update_recognition_state the history holds at
\* most HISTORY_MAX_LENGTH labels, and they are, in order, the most recent
\* labels fed since the history was last cleared: each call either leaves
\* the history empty (its unlock cleared it) or leaves the old history with
\* the new label at the end and, when it was full, without its oldest
\* label; as long as nothing was cleared the history is the list of labels
\* fed so far
C17_HistoryIsRecentLabels ==
    /\ [](Len(recognition_history) <= HISTORY_MAX_LENGTH)
    /\ []((~fed_over /\ Len(fed) = Len(recognition_history)) => recognition_history = fed)
    /\ [][ last_call'.op = "feed" =>
             \/ recognition_history' = <<>>
             \/ recognition_history' =
                    HistoryWith(recognition_history, last_call'.name) ]_vars

\* ten labels were fed from the start and nothing was cleared: the history
\* holds the last eight of them
C17_Witness ==
    /\ AfterFeed /\ fed_over
    /\ run_label = "Searching..." /\ run_len = HISTORY_MAX_LENGTH + 2
    /\ recognition_history = Repeat("Searching...", HISTORY_MAX_LENGTH)

\* ------------------------------------------------------------------------
\* C18: the frame after a commit
\* ------------------------------------------------------------------------
\* the previous operation was a mark_attendance that wrote its entry
AfterCommit ==
    /\ last_call.op = "mark"
    /\ status_log = "LOGGED"

\* C18: after a successful mark_attendance(M) has reset the machine to
\* Unlocked, the next processed frame does not lock an identity again
\* (the machine needs REQUIRED_STABLE_FRAMES further confident frames
\* first): right after the first update_recognition_state that follows
\* the commit nothing is locked
C18_NoRelockOnNextFrame ==
    [][ (AfterCommit /\ last_call'.op = "feed") => locked_in_person' = None ]_vars

\* ------------------------------------------------------------------------
\* C19, C20: the display loop
\* ------------------------------------------------------------------------
\* a tick of _display_loop that takes a frame from the output queue
DisplayRenders ==
    /\ processed_frame_queue # <<>>
    /\ processed_frame_queue' = Tail(processed_frame_queue)

\* C19: when a tick of _display_loop finds the output queue non-empty, the
\* frame it renders is the one that was produced last among the frames in
\* the queue, never an older one while a newer one is waiting
C19_RendersFreshest ==
    [][ DisplayRenders =>
            video_label' = processed_frame_queue[Len(processed_frame_queue)] ]_vars

\* C19 amended: a tick that finds the output queue non-empty renders the
\* frame at the head of the queue, the oldest one waiting, and removes
\* only that frame; the frames still waiting (at most QUEUE_MAXSIZE - 1)
\* are newer than the rendered one, and the rendered frame is newer than
\* the one rendered before
C19_RendersOldestQueued ==
    [][ DisplayRenders =>
          /\ video_label' = Head(processed_frame_queue)
          /\ Len(processed_frame_queue') <= QUEUE_MAXSIZE - 1
          /\ \A i \in 1..Len(processed_frame_queue') :
                 processed_frame_queue'[i].frame > video_label'.frame
          /\ video_label'.frame > video_label.frame ]_vars

\* frame 1 is on the screen, frame 2 waits in the queue and frame 3 is
\* being processed
C19_Witness ==
    /\ display_scheduled /\ app_running
    /\ video_label.frame = 1
    /\ Len(processed_frame_queue) = 1
    /\ processed_frame_queue[1].frame = 2
    /\ frame = 3

\* a step that can only be a tick of _display_loop
DisplayChange ==
    \/ video_label' # video_label
    \/ display_scheduled /\ ~display_scheduled'
    \/ DisplayRenders

\* C20: a tick of the display loop never blocks: a scheduled tick can
\* always run; with the flag set and the output queue empty the rendered
\* frame stays and the next tick stays scheduled; with the flag cleared
\* the tick shows the placeholder, takes nothing from the queue and
\* schedules no further tick
C20_TickNeverBlocks ==
    /\ [](display_scheduled => ENABLED DisplayLoop)
    /\ [][ (display_scheduled /\ app_running /\ processed_frame_queue = <<>>)
               => (video_label' = video_label /\ display_scheduled') ]_vars
    /\ [][ (display_scheduled /\ ~app_running /\ DisplayChange)
               => ( /\ video_label' = Placeholder
                    /\ ~display_scheduled'
                    /\ processed_frame_queue' = processed_frame_queue ) ]_vars

\* the flag is set, the queue is empty and the label still shows the last
\* frame taken from it, with the next tick scheduled
C20_Witness ==
    /\ display_scheduled /\ app_running
    /\ processed_frame_queue = <<>>
    /\ video_label.frame = 2
    /\ processing_thread = "get"

\* ------------------------------------------------------------------------
\* C21, C25: worker threads across camera sessions (SpecRestart)
\* ------------------------------------------------------------------------
\* C21: an Acquisition Worker that was running when the flag was cleared
\* does not stay in its loop: the next time it evaluates its loop
\* condition it leaves the loop (and releases the device)
C21_AcquisitionLeavesLoop ==
    [][ \A i \in 1..Len(acq_workers) :
            ( /\ acq_workers[i].cleared
              /\ acq_workers[i].pc = "check"
              /\ acq_workers'[i].pc # "check" )
                => acq_workers'[i].pc = "exited" ]_vars

\* the workers of a list that are inside their loop and have seen no clear
LiveLooping(workers) ==
    {i \in 1..Len(workers) :
        workers[i].pc \in {"check", "read", "get", "work"} /\ ~workers[i].cleared}

\* the workers of a list that went on looping after the flag had been
\* cleared for them
Revived(workers) == {i \in 1..Len(workers) : workers[i].revived}

\* C25: across stop_camera / start_camera calls at most one Acquisition
\* Worker and at most one Processing Worker run their loops: each start
\* leaves at most one worker that has not been told to stop, and a worker
\* that was told to stop is never revived by the flag being set again
C25_OneWorkerPerKind ==
    /\ Cardinality(LiveLooping(acq_workers)) <= 1
    /\ Cardinality(LiveLooping(proc_workers)) <= 1
    /\ Revived(acq_workers) = {}
    /\ Revived(proc_workers) = {}

MarkCase ==
    CASE status_log = "LOGGED" -> "committed"
      [] status_log = "ERROR writing" -> "failed write"
      [] status_log = "" -> "cooldown active"
      [] OTHER -> "no valid record"

\* C23: mark_attendance reports its outcome to the caller: two calls that
\* end differently (committed, cooldown active, failed write, no valid
\* record) hand back different values
C23_OutcomeReported ==
    [][ (AfterMark /\ last_call'.op = "mark" /\ MarkCase' # MarkCase)
            => last_call'.returned # last_call.returned ]_vars

\* ------------------------------------------------------------------------
\* C24: a lock over frames that bring no new result
\* ------------------------------------------------------------------------
\* C24 as stated: once the machine has entered Locked(M), the next frame,
\* with no task completing and no commit in between, leaves it in Locked(M)
C24_LockHeldWithoutNewResult ==
    [][ ( /\ AfterFeed
          /\ last_call.locked_before = None
          /\ locked_in_person # None
          /\ last_call'.op = "feed" )
            => locked_in_person' = locked_in_person ]_vars

\* C24: in Locked(M) with the cached label equal to M, a frame (face
\* detected or not: the step takes only the cached label) leaves the
\* machine in Locked(M) with the same stable count
C24_LockHeldOnCachedIdentity ==
    [][ ( /\ locked_in_person # None
          /\ last_recognition_result[1] = locked_in_person
          /\ last_call'.op = "feed" )
            => ( /\ locked_in_person' = locked_in_person
                 /\ stable_recognition_count' = stable_recognition_count ) ]_vars

\* a lock on the cached identity that has been held over a run of frames
\* longer than the history window
C24_Witness ==
    /\ AfterFeed
    /\ locked_in_person # None
    /\ last_call.locked_before = locked_in_person
    /\ last_recognition_result[1] = locked_in_person
    /\ run_label = locked_in_person
    /\ run_len > HISTORY_MAX_LENGTH

\* ------------------------------------------------------------------------
\* C26, C27: the UI thread against the Processing Worker
\* ------------------------------------------------------------------------
\* C26: whenever manual_mark_attendance has invoked mark_attendance, the
\* identity it passed is not None
C26_MarkNeverCalledWithNone ==
    mark_calls["ui"].pc = "l894" => mark_calls["ui"].name # None

\* C27: update_recognition_state never raises on an empty history (IndexError
\* at most_common(1)[0], ZeroDivisionError at count / len(history)), so the
\* Processing Worker is never terminated by a concurrent commit
C27_UpdateNeverRaises == update_pc # "died"

\* ------------------------------------------------------------------------
\* SpecTear: one iteration of _frame_processing_worker (lines 436-456), read
\* by read, against the recognition task that stores a new result
\* ------------------------------------------------------------------------
tearFrame == <<attendVars, obsVars, last_outcome, updVars, markVars, restartVars,
               database_ready, last_recognition_time, app_running, camera_thread,
               processing_thread, raw_frame_queue, recognition_executor,
               recognition_future, frame, display_scheduled, video_label,
               setup_done, db_thread, frames_read, tasks_submitted, mono>>

\* lines 436-441: the detector finds a face in the frame or not
IterDetect(face) ==
    /\ iter_pc = "l436"
    /\ face_coords' = face
    /\ iter_pc' = "l450"
    /\ UNCHANGED <<stabVars, resultVars, fed_label, drawn_label, drawn_distance,
                   processed_frame_queue, tearFrame>>

\* line 450: update_recognition_state(self.last_recognition_result[0])
IterUpdate ==
    /\ iter_pc = "l450"
    /\ fed_label' = last_recognition_result[1]
    /\ update_recognition_state(last_recognition_result[1])
    /\ iter_pc' = "l451"
    /\ UNCHANGED <<resultVars, drawn_label, drawn_distance, face_coords,
                   processed_frame_queue, tearFrame>>

\* line 451, third argument: self.last_recognition_result[0]
IterReadLabel ==
    /\ iter_pc = "l451"
    /\ drawn_label' = last_recognition_result[1]
    /\ iter_pc' = "l451d"
    /\ UNCHANGED <<stabVars, resultVars, fed_label, drawn_distance, face_coords,
                   processed_frame_queue, tearFrame>>

\* line 451, fourth argument: self.last_recognition_result[1]
IterReadDistance ==
    /\ iter_pc = "l451d"
    /\ drawn_distance' = last_recognition_result[2]
    /\ iter_pc' = "l453"
    /\ UNCHANGED <<stabVars, resultVars, fed_label, drawn_label, face_coords,
                   processed_frame_queue, tearFrame>>

\* lines 451-456: draw_on_frame with the two arguments, the non-blocking put
IterDrawAndPut ==
    /\ iter_pc = "l453"
    /\ processed_frame_queue' =
           PutNoWait(processed_frame_queue,
                     AnnotatedFrame(frame, face_coords, drawn_label, drawn_distance))
    /\ iter_pc' = "l436"
    /\ UNCHANGED <<stabVars, resultVars, fed_label, drawn_label, drawn_distance,
                   face_coords, tearFrame>>

NextTear ==
    \/ \E o \in RecognizerOutcomes : PublishRace(o)
    \/ \E face \in BOOLEAN : IterDetect(face)
    \/ IterUpdate
    \/ IterReadLabel
    \/ IterReadDistance
    \/ IterDrawAndPut

SpecTear == Init /\ [][NextTear]_vars

\* ------------------------------------------------------------------------
\* C28: the label stepped with and the caption drawn in one iteration
\* ------------------------------------------------------------------------
\* the tuples last_recognition_result can hold (lines 181, 468-474)
ValidResults ==
    {RecognitionResultOf(o) : o \in RecognizerOutcomes} \cup {<<"Searching...", INF>>}

\* draw_on_frame captions the face with its argument name (lines 530-536)
NameShown ==
    /\ face_coords
    /\ locked_in_person = None
    /\ DisplayName(face_coords, drawn_label) = drawn_label

\* C28: when an iteration draws the caption of a frame, the name shown is
\* the label update_recognition_state was stepped with in that iteration
\* and the name and the distance shown are those of one RecognitionResult
C28_OneResultPerIteration ==
    (iter_pc = "l453" /\ NameShown) =>
        /\ drawn_label = fed_label
        /\ <<drawn_label, drawn_distance>> \in ValidResults

\* ------------------------------------------------------------------------
\* C29: an identity without a valid record
\* ------------------------------------------------------------------------
\* C29: a call of mark_attendance that finds the record missing, unreadable
\* or of a user type other than Student and Faculty appends no entry and
\* leaves the CooldownTable, the locked identity, the history and the
\* stable count as they are; the identity is not on cooldown afterwards
\* unless it was before
C29_InvalidRecordChangesNothing ==
    [][ ( /\ last_call'.op = "mark"
          /\ last_call'.record \notin {"Student", "Faculty"} )
            => ( /\ attendance_log' = attendance_log
                 /\ recently_logged' = recently_logged
                 /\ locked_in_person' = locked_in_person
                 /\ recognition_history' = recognition_history
                 /\ stable_recognition_count' = stable_recognition_count
                 /\ \A n \in Identities : ~OnCooldown(n) => ~OnCooldown(n)' ) ]_vars

\* an attempt for a locked identity has just been turned down for its
\* record; the identity is still locked and not on cooldown
C29_Witness ==
    /\ AfterMark
    /\ last_call.record \in {"missing", "unreadable", "Other"}
    /\ status_log \in {"ERROR: Details file not found",
                       "ERROR: Could not read details",
                       "WARNING: Unknown user type"}
    /\ locked_in_person = last_call.name
    /\ last_call.name \notin DOMAIN recently_logged
    /\ attendance_log = <<>>

\* ------------------------------------------------------------------------
\* C30: the range of the stable count
\* ------------------------------------------------------------------------
\* C30: between calls of update_recognition_state the stable count lies in
\* 0..REQUIRED_STABLE_FRAMES, and an identity is locked only with the count
\* at REQUIRED_STABLE_FRAMES
C30_StableCountRange ==
    /\ stable_recognition_count \in 0..REQUIRED_STABLE_FRAMES
    /\ locked_in_person # None => stable_recognition_count = REQUIRED_STABLE_FRAMES

\* the frame that has just taken the lock, with the count at its maximum
C30_Witness ==
    /\ AfterFeed
    /\ last_call.locked_before = None
    /\ locked_in_person # None
    /\ stable_recognition_count = REQUIRED_STABLE_FRAMES
    /\ Len(recognition_history) = REQUIRED_STABLE_FRAMES + 1
====
